---- MODULE Spec2Model ----
(***************************************************************************)
(* Model of the hdlmake core actions (hdlmake/action/commands.py) working  *)
(* on a pool of module descriptors (hdlmake/module/core.py).               *)
(*                                                                         *)
(* A module descriptor is a record of the arena `mods'; its index is the   *)
(* identity of the Python object.  The pool (self.manifests) and the       *)
(* fetch queue hold indices.  The file system is `disk': per resolved      *)
(* path "absent", "empty" (directory exists, nothing in it) or "full".     *)
(* A URL is modelled by its basename, so the resolved path of a non-local  *)
(* module (fetchto/basename) is written as that basename.                  *)
(***************************************************************************)
EXTENDS Integers, Sequences, FiniteSets, TLC

\* Number of core actions (fetch, clean, update, makefile) run on one pool.
MaxCmds == 3

\* Number of modules of a module tree whose manifests are processed.
MaxModules == 3

\* Number of source files created for a fileset.
MaxFiles == 3

\* Number of source files handed to the dependency solver.
MaxSolved == 3

Paths == {"top", "A", "B", "D", "L"}

VcsSources == {"git", "gitsm", "svn"}

ref(source, url, branch) ==
    [source |-> source, url |-> url, branch |-> branch]

NoDecl == [p \in Paths |-> <<>>]

\* The module graphs: per graph, the sub-module declarations found in the
\* manifest stored at each path, in the order module.modules yields them.
Graphs ==
    [ chain    |-> [NoDecl EXCEPT !["top"] = <<ref("git", "A", "master")>>,
                                  !["A"] = <<ref("svn", "B", "r1")>>,
                                  !["B"] = <<ref("gitsm", "D", "master")>>],
      diamond  |-> [NoDecl EXCEPT !["top"] = <<ref("git", "A", "master"),
                                               ref("svn", "B", "r1")>>,
                                  !["A"] = <<ref("gitsm", "D", "master")>>,
                                  !["B"] = <<ref("gitsm", "D", "master")>>],
      triangle |-> [NoDecl EXCEPT !["top"] = <<ref("gitsm", "D", "master"),
                                               ref("git", "A", "master")>>,
                                  !["A"] = <<ref("gitsm", "D", "master")>>,
                                  !["D"] = <<ref("svn", "B", "r1")>>],
      cycle    |-> [NoDecl EXCEPT !["top"] = <<ref("git", "A", "master")>>,
                                  !["A"] = <<ref("svn", "B", "r1")>>,
                                  !["B"] = <<ref("git", "A", "master")>>],
      selfloop |-> [NoDecl EXCEPT !["top"] = <<ref("git", "A", "master")>>,
                                  !["A"] = <<ref("git", "A", "master"),
                                             ref("svn", "B", "r1")>>],
      twice    |-> [NoDecl EXCEPT !["top"] = <<ref("gitsm", "D", "master"),
                                               ref("gitsm", "D", "dev")>>],
      withloc  |-> [NoDecl EXCEPT !["top"] = <<ref("git", "A", "master")>>,
                                  !["A"] = <<ref("svn", "B", "r1"),
                                             ref("local", "L", "none")>>,
                                  !["L"] = <<ref("gitsm", "D", "master")>>] ]

GraphNames == DOMAIN Graphs

\* The fetch directives carried by the manifest stored at each path.
Directives ==
    [p \in Paths |->
        IF p = "top" THEN {"fetch_pre_cmd"}
        ELSE IF p = "A" THEN {"fetch_pre_cmd", "fetch_post_cmd"}
        ELSE IF p = "B" THEN {"fetch_post_cmd"}
        ELSE {}]

\* Paths a graph mentions (the others stay absent from the disk).
RECURSIVE SeqUrls(_)
SeqUrls(s) == IF s = <<>> THEN {} ELSE {Head(s).url} \cup SeqUrls(Tail(s))

Mentioned(g) == UNION {SeqUrls(Graphs[g][p]) : p \in Paths}

VARIABLES
    graph,        \* name of the module graph (the manifests on the remotes)
    disk,         \* path -> "absent" | "empty" | "full"
    mods,         \* arena of module descriptors
    manifests,    \* self.manifests: the pool, a list of descriptor indices
    fetch_queue,  \* the local fetch_queue of _fetch_all
    pc,           \* "idle" | "fetch_all"
    cmd,          \* the action running or last run
    ncmds,        \* number of actions started
    error,        \* the exception that ended the last action, or NoError
    log,          \* calls to collaborators made by the current action
    created,      \* every call of init_config so far, with its outcome
    start,        \* the pool as it was when the current action started
    tree,         \* modules whose manifest is processed for its library
    call,         \* the last call of create_source_file, with its outcome
    files,        \* the file objects that exist (the index is the identity)
    fileset,      \* a SourceFileSet: the file objects it holds
    added,        \* the files the last SourceFileSet.add was given
    raised,       \* the exception the last SourceFileSet.add raised
    parseable_fileset,  \* self.parseable_fileset of the action object
    privative_fileset,  \* self.privative_fileset of the action object
    written,      \* what makefile did and what it handed to the tool
    sfiles,       \* the parseable fileset handed to the dependency solver
    solved,       \* what the dependency solver returned
    listed        \* what list_files printed

corevars == <<graph, disk, mods, manifests, fetch_queue, pc, cmd, ncmds,
              error, log, created, start>>

libvars == <<tree>>

filevars == <<call, files, fileset, added, raised,
              parseable_fileset, privative_fileset, written>>

solvevars == <<sfiles, solved, listed>>

vars == <<corevars, libvars, filevars, solvevars>>

NoError == [kind |-> "none", url |-> "none", mods |-> <<>>]

NoModule ==
    [source |-> "none", parent |-> 0, url |-> "none", branch |-> "none",
     revision |-> "none", path |-> "none", isfetched |-> FALSE,
     modules |-> <<>>, parsed |-> FALSE]

----------------------------------------------------------------------------
(* module/core.py *)

init_config_exists(parent, decl, dsk) ==
    LET mod == [source |-> decl.source, parent |-> parent, url |-> decl.url,
                branch |-> IF decl.source \in {"svn", "local"} THEN "none"
                           ELSE decl.branch,
                revision |-> IF decl.source = "svn" THEN decl.branch
                             ELSE "none",
                path |-> decl.url, isfetched |-> (dsk[decl.url] # "absent"),
                modules |-> <<>>, parsed |-> FALSE]
    IN IF decl.source = "local" /\ dsk[decl.url] = "absent"
       THEN [ok |-> FALSE, kind |-> "config_error", mod |-> NoModule]
       ELSE [ok |-> TRUE, kind |-> "none", mod |-> mod]

init_config_local_unfetched(parent, decl, dsk) ==
    LET mod == [source |-> decl.source, parent |-> parent, url |-> decl.url,
                branch |-> IF decl.source \in {"svn", "local"} THEN "none"
                           ELSE decl.branch,
                revision |-> IF decl.source = "svn" THEN decl.branch
                             ELSE "none",
                path |-> decl.url, isfetched |-> (dsk[decl.url] = "full"),
                modules |-> <<>>, parsed |-> FALSE]
    IN IF decl.source # "local" /\ parent = 0
       THEN [ok |-> FALSE, kind |-> "attribute_error", mod |-> NoModule]
       ELSE IF decl.source = "local" /\ dsk[decl.url] = "absent"
       THEN [ok |-> FALSE, kind |-> "config_error", mod |-> NoModule]
       ELSE [ok |-> TRUE, kind |-> "none",
             mod |-> IF decl.source = "local" /\ parent # 0
                     THEN [mod EXCEPT !.isfetched = FALSE] ELSE mod]

\* ModuleConfig.init_config: the descriptor made for a declaration, or the
\* exception it raises.  parent = 0 stands for None.
init_config(parent, decl, dsk) ==
    IF decl.source # "local"
    THEN IF parent = 0
         THEN [ok |-> FALSE, kind |-> "attribute_error", mod |-> NoModule]
         ELSE [ok |-> TRUE, kind |-> "none",
               mod |-> [source |-> decl.source, parent |-> parent,
                        url |-> decl.url,
                        branch |-> IF decl.source = "svn" THEN "none"
                                   ELSE decl.branch,
                        revision |-> IF decl.source = "svn" THEN decl.branch
                                     ELSE "none",
                        path |-> decl.url,
                        isfetched |-> (dsk[decl.url] = "full"),
                        modules |-> <<>>, parsed |-> FALSE]]
    ELSE IF dsk[decl.url] = "absent"
         THEN [ok |-> FALSE, kind |-> "config_error", mod |-> NoModule]
         ELSE [ok |-> TRUE, kind |-> "none",
               mod |-> [source |-> "local", parent |-> parent,
                        url |-> decl.url, branch |-> "none",
                        revision |-> "none", path |-> decl.url,
                        isfetched |-> TRUE,
                        modules |-> <<>>, parsed |-> FALSE]]

\* The record kept of one init_config call: what was asked, what the disk
\* held at the path, and what came out.
creation(parent, decl, dsk) ==
    LET r == init_config(parent, decl, dsk) IN
    [source |-> decl.source, url |-> decl.url, parent |-> parent,
     ondisk |-> dsk[decl.url], ok |-> r.ok, kind |-> r.kind,
     path |-> r.mod.path, isfetched |-> r.mod.isfetched]

\* Module.parse_manifest: one descriptor per declaration of the manifest
\* stored at the module's path, in order, attached to module.modules; stops
\* at the first declaration whose descriptor cannot be made.
RECURSIVE new_children(_, _, _, _, _)
new_children(ms, cr, parent, decls, dsk) ==
    IF decls = <<>>
    THEN [mods |-> ms, created |-> cr, ok |-> TRUE, kind |-> "none",
          url |-> "none"]
    ELSE LET r == init_config(parent, Head(decls), dsk)
             cr1 == Append(cr, creation(parent, Head(decls), dsk))
         IN IF ~r.ok
            THEN [mods |-> ms, created |-> cr1, ok |-> FALSE,
                  kind |-> r.kind, url |-> Head(decls).url]
            ELSE LET id == Len(ms) + 1
                     ms1 == [Append(ms, r.mod) EXCEPT
                                ![parent].modules = Append(@, id)]
                 IN new_children(ms1, cr1, parent, Tail(decls), dsk)

parse_manifest(ms, cr, m, g, dsk) ==
    new_children([ms EXCEPT ![m].parsed = TRUE], cr, m,
                 Graphs[g][ms[m].path], dsk)

\* Module.submodules: the child list known so far.
submodules(ms, m) == ms[m].modules

----------------------------------------------------------------------------
(* The collaborators of the core actions *)

\* Action._add: register a module in the pool unless a module with the same
\* resolved path is registered already.
_add(ms, pool, mod) ==
    IF \E i \in 1..Len(pool) : ms[pool[i]].path = ms[mod].path
    THEN pool
    ELSE Append(pool, mod)

\* Git.fetch / GitSM.fetch / Svn.fetch: check the module out at its path.
\* On success the directory is filled and the module is marked fetched; on
\* failure the module is left as it is and the directory may be left
\* partially written.
backend_fetch(ms, m, dsk, result, partial) ==
    IF result
    THEN [mods |-> [ms EXCEPT ![m].isfetched = TRUE],
          disk |-> [dsk EXCEPT ![ms[m].path] = "full"]]
    ELSE [mods |-> ms,
          disk |-> IF partial THEN [dsk EXCEPT ![ms[m].path] = "full"]
                   ELSE dsk]

\* Module.remove_dir_from_disk: delete the directory, nothing if absent.
remove_dir_from_disk(dsk, path) == [dsk EXCEPT ![path] = "absent"]

\* Loading the pool: the top module is a local module at the working
\* directory, registered and parsed.
load(g, dsk) ==
    LET top == ref("local", "top", "none")
        r == init_config(0, top, dsk)
        cr == <<creation(0, top, dsk)>>
    IN IF ~r.ok
       THEN [mods |-> <<>>, created |-> cr, ok |-> FALSE, kind |-> r.kind,
             url |-> "top"]
       ELSE parse_manifest(<<r.mod>>, cr, 1, g, dsk)

----------------------------------------------------------------------------
(* action/commands.py *)

event(op, mod, path, ok) == [op |-> op, mod |-> mod, path |-> path, ok |-> ok]

\* The backend _fetch_module dispatches to (lines 84-90).
backend(source) ==
    IF source = "svn" THEN "svn"
    ELSE IF source = "git" THEN "git"
    ELSE IF source = "gitsm" THEN "gitsm"
    ELSE "assertion_error"

\* The test of line 91: the backend's answer makes _fetch_module raise.
raises_never(result) == FALSE

raises(result) == result = FALSE

\* _fetch_all._fetch_module (lines 80-96).
_fetch_module(ms, cr, module, g, dsk, result, partial) ==
    LET b == backend(ms[module].source) IN
    IF b = "assertion_error"
    THEN [mods |-> ms, created |-> cr, disk |-> dsk, log |-> <<>>,
          error |-> [kind |-> "assertion_error", url |-> ms[module].url,
                     mods |-> <<>>],
          new_modules |-> <<>>]
    ELSE LET f == backend_fetch(ms, module, dsk, result, partial)
             ev == <<event("fetch", module, ms[module].path, result)>>
         IN IF raises(result)
            THEN [mods |-> f.mods, created |-> cr, disk |-> f.disk,
                  log |-> ev,
                  error |-> [kind |-> "fetch_error", url |-> ms[module].url,
                             mods |-> <<>>],
                  new_modules |-> <<>>]
            ELSE LET p == parse_manifest(f.mods, cr, module, g, f.disk) IN
                 [mods |-> p.mods, created |-> p.created, disk |-> f.disk,
                  log |-> ev,
                  error |-> IF p.ok THEN NoError
                            ELSE [kind |-> p.kind, url |-> p.url,
                                  mods |-> <<>>],
                  new_modules |-> IF p.ok THEN p.mods[module].modules
                                  ELSE <<>>]

pop_keep(queue) == [item |-> queue[Len(queue)], rest |-> queue]

\* fetch_queue.pop() (line 101).
pop(queue) ==
    [item |-> queue[Len(queue)], rest |-> SubSeq(queue, 1, Len(queue) - 1)]

to_queue_always(m) == TRUE

\* The test of line 108: a discovered module goes on the queue.
to_queue(m) == ~m.isfetched

RECURSIVE enqueue_unregistered(_, _, _, _)
enqueue_unregistered(ms, pool, queue, new_modules) ==
    IF new_modules = <<>>
    THEN [manifests |-> pool, fetch_queue |-> queue]
    ELSE LET mod == Head(new_modules) IN
         IF to_queue(ms[mod])
         THEN enqueue_unregistered(ms, pool, Append(queue, mod),
                                   Tail(new_modules))
         ELSE enqueue_unregistered(ms, pool, queue, Tail(new_modules))

\* Lines 107-115: register and queue the discovered modules.
RECURSIVE enqueue(_, _, _, _)
enqueue(ms, pool, queue, new_modules) ==
    IF new_modules = <<>>
    THEN [manifests |-> pool, fetch_queue |-> queue]
    ELSE LET mod == Head(new_modules) IN
         IF to_queue(ms[mod])
         THEN enqueue(ms, _add(ms, pool, mod), Append(queue, mod),
                      Tail(new_modules))
         ELSE enqueue(ms, pool, queue, Tail(new_modules))

hook_list_any(ms, pool, directive) ==
    SelectSeq(pool, LAMBDA m : ms[m].isfetched /\ ms[m].parsed)

\* fetch, lines 120-122 and 125-127: the modules whose hook is run.  The
\* manifest_dict of a module is None until its manifest is parsed.
hook_list(ms, pool, directive) ==
    SelectSeq(pool, LAMBDA m : /\ ms[m].isfetched
                               /\ ms[m].parsed
                               /\ directive \in Directives[ms[m].path])

\* fetch, lines 123 and 128: os.system runs the command of each module of
\* the list; status[i] tells whether the i-th command exited with 0.
run_hooks(ms, hl, directive, status) ==
    [i \in 1..Len(hl) |-> event(directive, hl[i], ms[hl[i]].path, status[i])]

post_sweep_first(lg, hooks) == hooks \o lg

\* fetch, lines 124-128: the post sweep runs when _fetch_all has returned,
\* so its calls follow every call made by the loop.
post_sweep(lg, hooks) == lg \o hooks

RECURSIVE Reverse(_)
Reverse(s) == IF s = <<>> THEN <<>> ELSE Append(Reverse(Tail(s)), Head(s))

remove_list_forward(ms, pool) ==
    SelectSeq(pool, LAMBDA m : ms[m].source \in {"git", "gitsm", "svn"}
                               /\ ms[m].isfetched)

remove_list_unfetched(ms, pool) ==
    Reverse(SelectSeq(pool, LAMBDA m : ms[m].source \in {"git", "gitsm", "svn"}))

\* clean, lines 134-137.
remove_list(ms, pool) ==
    Reverse(SelectSeq(pool, LAMBDA m : ms[m].source \in {"git", "gitsm", "svn"}
                                       /\ ms[m].isfetched))

\* clean, lines 139-142: the disk and the calls after removing the list.
RECURSIVE remove_all(_, _, _, _)
remove_all(ms, rl, dsk, lg) ==
    IF rl = <<>>
    THEN [disk |-> dsk, log |-> lg]
    ELSE remove_all(ms, Tail(rl), remove_dir_from_disk(dsk, ms[Head(rl)].path),
                    Append(lg, event("remove", Head(rl), ms[Head(rl)].path,
                                     TRUE)))

update_list_gitsm(ms, pool) ==
    SelectSeq(pool, LAMBDA m : ms[m].isfetched
                               /\ ms[m].source \in {"git", "gitsm"})

\* update, lines 240-246: the modules the git backend is asked to update.
update_list(ms, pool) ==
    SelectSeq(pool, LAMBDA m : ms[m].isfetched /\ ms[m].source = "git")

RECURSIVE update_all(_, _)
update_all(ms, ul) ==
    IF ul = <<>> THEN <<>>
    ELSE <<event("update", Head(ul), ms[Head(ul)].path, TRUE)>>
         \o update_all(ms, Tail(ul))

_check_all_fetched_skip(ms, pool) == <<>>

\* _check_all_fetched, lines 51-60: the modules named by the exception.
_check_all_fetched(ms, pool) ==
    SelectSeq(pool, LAMBDA m : ~ms[m].isfetched)

----------------------------------------------------------------------------
(* State machine *)

AllFetched(ms, pool) ==
    \A i \in 1..Len(pool) :
        /\ ms[pool[i]].isfetched
        /\ \A j \in 1..Len(ms[pool[i]].modules) :
               ms[ms[pool[i]].modules[j]].isfetched

Snapshot == [manifests |-> manifests, allfetched |-> AllFetched(mods, manifests),
             disk |-> disk]

InitDisk(g) ==
    { d \in [Paths -> {"absent", "empty", "full"}] :
        /\ d["top"] = "full"
        /\ d["L"] # "empty"
        /\ \A p \in Paths \ ({"top"} \cup Mentioned(g)) : d[p] = "absent" }

NoSolution ==
    [status |-> "none", order |-> <<>>, unresolved |-> {}, named |-> {}]

NoListing ==
    [done |-> FALSE, file_list |-> <<>>, printed |-> <<>>, qip |-> FALSE]

\* The parts of the state a specification does not use stay as they are here.
CoreIdle ==
    /\ graph = "chain"
    /\ disk = [p \in Paths |-> "absent"]
    /\ mods = <<>>
    /\ created = <<>>
    /\ manifests = <<>>
    /\ fetch_queue = <<>>
    /\ pc = "off"
    /\ cmd = "none"
    /\ ncmds = 0
    /\ error = NoError
    /\ log = <<>>
    /\ start = [manifests |-> <<>>, allfetched |-> FALSE, disk |-> disk]

LibIdle == tree = <<>>

NoFile == [class |-> "none", path |-> <<>>, library |-> <<>>,
           module |-> "none", is_include |-> FALSE]

NoCall == [path |-> <<>>, module |-> "none", library |-> <<>>,
           is_include |-> FALSE, error |-> "none", new_file |-> NoFile]

NoWrite == [done |-> FALSE, calls |-> <<>>, fileset |-> {}]

MakeIdle ==
    /\ parseable_fileset = {}
    /\ privative_fileset = {}
    /\ written = NoWrite

FileIdle ==
    /\ call = NoCall
    /\ files = <<>>
    /\ fileset = {}
    /\ added = [kind |-> "None", files |-> <<>>]
    /\ raised = "none"
    /\ MakeIdle

SolveIdle == sfiles = <<>> /\ solved = NoSolution /\ listed = NoListing

Init ==
    /\ LibIdle /\ FileIdle /\ SolveIdle
    /\ graph \in GraphNames
    /\ disk \in InitDisk(graph)
    /\ load(graph, disk).ok
    /\ mods = load(graph, disk).mods
    /\ created = load(graph, disk).created
    /\ manifests = <<1>>
    /\ fetch_queue = <<>>
    /\ pc = "idle"
    /\ cmd = "none"
    /\ ncmds = 0
    /\ error = NoError
    /\ log = <<>>
    /\ start = [manifests |-> <<1>>, allfetched |-> FALSE, disk |-> disk]

Begin(c) ==
    /\ pc = "idle"
    /\ ncmds < MaxCmds
    /\ ncmds' = ncmds + 1
    /\ cmd' = c
    /\ start' = Snapshot
    /\ UNCHANGED <<libvars, filevars, solvevars>>

\* fetch(), lines 119-123 and the start of _fetch_all (line 98).
FetchBegin ==
    /\ Begin("fetch")
    /\ pc' = "fetch_all"
    /\ fetch_queue' = manifests
    /\ error' = NoError
    /\ LET hl == hook_list(mods, manifests, "fetch_pre_cmd") IN
       \E status \in [1..Len(hl) -> BOOLEAN] :
           log' = run_hooks(mods, hl, "fetch_pre_cmd", status)
    /\ UNCHANGED <<graph, disk, mods, manifests, created>>

\* One pass of the loop of _fetch_all (lines 100-115).
FetchStep ==
    /\ pc = "fetch_all"
    /\ Len(fetch_queue) > 0
    /\ LET cur_mod == pop(fetch_queue).item
           rest == pop(fetch_queue).rest
       IN IF mods[cur_mod].isfetched
          THEN LET e == enqueue(mods, manifests, rest,
                                submodules(mods, cur_mod))
               IN /\ manifests' = e.manifests
                  /\ fetch_queue' = e.fetch_queue
                  /\ UNCHANGED <<disk, mods, pc, error, log, created>>
          ELSE \E result \in BOOLEAN, partial \in BOOLEAN :
               /\ result => ~partial
               /\ LET f == _fetch_module(mods, created, cur_mod, graph, disk,
                                         result, partial)
                      e == enqueue(f.mods, manifests, rest, f.new_modules)
                  IN /\ mods' = f.mods
                     /\ created' = f.created
                     /\ disk' = f.disk
                     /\ log' = log \o f.log
                     /\ error' = f.error
                     /\ IF f.error.kind # "none"
                        THEN /\ pc' = "idle"
                             /\ fetch_queue' = rest
                             /\ manifests' = manifests
                        ELSE /\ pc' = pc
                             /\ fetch_queue' = e.fetch_queue
                             /\ manifests' = e.manifests
    /\ UNCHANGED <<graph, cmd, ncmds, start, libvars, filevars, solvevars>>

\* The loop of _fetch_all ends and fetch() runs lines 125-129.
FetchEnd ==
    /\ pc = "fetch_all"
    /\ Len(fetch_queue) = 0
    /\ pc' = "idle"
    /\ LET hl == hook_list(mods, manifests, "fetch_post_cmd") IN
       \E status \in [1..Len(hl) -> BOOLEAN] :
           log' = post_sweep(log, run_hooks(mods, hl, "fetch_post_cmd",
                                            status))
    /\ UNCHANGED <<graph, disk, mods, manifests, fetch_queue, cmd, ncmds,
                   error, created, start, libvars, filevars, solvevars>>

\* clean() (lines 131-145).
Clean ==
    /\ Begin("clean")
    /\ LET r == remove_all(mods, remove_list(mods, manifests), disk, <<>>)
       IN /\ disk' = r.disk
          /\ log' = r.log
    /\ error' = NoError
    /\ UNCHANGED <<graph, mods, manifests, fetch_queue, pc, created>>

\* update() (lines 238-246).
Update ==
    /\ Begin("update")
    /\ log' = update_all(mods, update_list(mods, manifests))
    /\ error' = NoError
    /\ UNCHANGED <<graph, disk, mods, manifests, fetch_queue, pc, created>>

\* makefile() (lines 62-75).
Makefile ==
    /\ Begin("makefile")
    /\ LET unfetched == _check_all_fetched(mods, manifests) IN
       IF Len(unfetched) # 0
       THEN /\ error' = [kind |-> "unfetched", url |-> "none",
                         mods |-> unfetched]
            /\ log' = <<>>
       ELSE \E tool \in BOOLEAN :
            /\ error' = NoError
            /\ log' = <<event("build_file_set", 0, "none", TRUE),
                        event("solve_file_set", 0, "none", TRUE)>>
                      \o IF tool
                         THEN <<event("write_makefile", 0, "none", TRUE)>>
                         ELSE <<event("quit", 0, "none", TRUE)>>
    /\ UNCHANGED <<graph, disk, mods, manifests, fetch_queue, pc, created>>

Next ==
    \/ FetchBegin
    \/ FetchStep
    \/ FetchEnd
    \/ Clean
    \/ Update
    \/ Makefile

Spec == Init /\ [][Next]_vars

\* The loop of _fetch_all runs on: every backend call returns and the
\* interpreter takes the next step.
LiveSpec == Spec /\ WF_vars(FetchStep) /\ WF_vars(FetchEnd)

TypeOK ==
    /\ graph \in GraphNames
    /\ pc \in {"idle", "fetch_all"}
    /\ ncmds \in 0..MaxCmds
    /\ \A i \in 1..Len(manifests) : manifests[i] \in 1..Len(mods)
    /\ \A i \in 1..Len(fetch_queue) : fetch_queue[i] \in 1..Len(mods)

----------------------------------------------------------------------------
(* Properties *)

PoolIndex(m) ==
    IF \E i \in 1..Len(manifests) : manifests[i] = m
    THEN CHOOSE i \in 1..Len(manifests) : manifests[i] = m
    ELSE 0

PoolPaths == {mods[manifests[i]].path : i \in 1..Len(manifests)}

Calls(op) == {i \in 1..Len(log) : log[i].op = op}

FetchCalls(p) == {i \in Calls("fetch") : log[i].path = p}

FetchDone == cmd = "fetch" /\ pc = "idle" /\ error.kind = "none"

\* C1: in a run of fetch resolution the backend fetch is invoked at most once
\* per resolved path, and exactly once for every path registered during a
\* run that ended without error.
C1_AtMostOnceFetch ==
    /\ \A p \in Paths : Cardinality(FetchCalls(p)) <= 1
    /\ FetchDone =>
         \A i \in 1..Len(manifests) :
            i > Len(start.manifests) =>
               Cardinality(FetchCalls(mods[manifests[i]].path)) = 1

\* C2: once the loop of _fetch_all is entered it is eventually left, also on
\* a graph with circular sub-module references.
C2_Termination == (pc = "fetch_all") ~> (pc = "idle")

C2_Witness ==
    /\ graph = "cycle"
    /\ FetchDone
    /\ FetchCalls("A") # {}
    /\ FetchCalls("B") # {}
    /\ \E i \in 1..Len(mods) : mods[i].path = "A" /\ mods[i].parent # 1

FailedFetches == {i \in Calls("fetch") : ~log[i].ok}

\* C3: a backend fetch that returns false ends the resolution at once with an
\* error naming the module's URL: the step that issued it parses nothing,
\* creates, registers and queues no module, and afterwards the failed call is
\* the last call of the run and the only failed one.
C3_AllOrNothing ==
    /\ [] (\A i \in FailedFetches :
              /\ i = Len(log)
              /\ pc = "idle"
              /\ error.kind = "fetch_error"
              /\ error.url = mods[log[i].mod].url
              /\ ~mods[log[i].mod].parsed
              /\ mods[log[i].mod].modules = <<>>)
    /\ [][ (FailedFetches' # FailedFetches /\ FailedFetches' # {}) =>
              /\ Len(mods') = Len(mods)
              /\ created' = created
              /\ manifests' = manifests
              /\ fetch_queue' = SubSeq(fetch_queue, 1, Len(fetch_queue) - 1)
         ]_vars

C3_Witness ==
    /\ FailedFetches # {}
    /\ Len(log) >= 2
    /\ Len(fetch_queue) >= 1
    /\ Graphs[graph][mods[log[Len(log)].mod].path] # <<>>

\* C4: a run of fetch resolution on a pool whose modules and their declared
\* sub-modules are all fetched issues no backend fetch and leaves the pool's
\* module list as it was.
C4_IdempotentFetch ==
    (cmd = "fetch" /\ start.allfetched) =>
        /\ Calls("fetch") = {}
        /\ manifests = start.manifests

C4_Witness ==
    /\ FetchDone
    /\ start.allfetched
    /\ Len(start.manifests) >= 3

\* C5: when fetch resolution ends without error every module of the pool is
\* fetched and every sub-module declared by a module of the pool is in the
\* pool.
C5_FetchedClosure ==
    FetchDone =>
        \A i \in 1..Len(manifests) :
            /\ mods[manifests[i]].isfetched
            /\ \A k \in 1..Len(Graphs[graph][mods[manifests[i]].path]) :
                  Graphs[graph][mods[manifests[i]].path][k].url \in PoolPaths

\* C6: clean removes the modules in the reverse of the pool's order, and a
\* module is removed before the module that discovered it.
C6_ReverseOrderClean ==
    cmd = "clean" =>
        \A i \in Calls("remove"), j \in Calls("remove") :
            /\ i < j => PoolIndex(log[i].mod) > PoolIndex(log[j].mod)
            /\ mods[mods[log[i].mod].parent].path = log[j].path => i < j

C6_Witness ==
    /\ cmd = "clean"
    /\ graph = "chain"
    /\ Len(log) = 3
    /\ log[1].path = "D" /\ log[2].path = "B" /\ log[3].path = "A"

\* C7: clean calls remove exactly once for each module of the pool that is
\* fetched and comes from git, gitsm or svn, and for nothing else; the
\* directories of the other modules are as they were.
C7_CleanScope ==
    cmd = "clean" =>
        /\ \A i \in 1..Len(log) : log[i].op = "remove" /\ PoolIndex(log[i].mod) # 0
        /\ \A k \in 1..Len(manifests) :
              Cardinality({i \in Calls("remove") : log[i].mod = manifests[k]})
                 = IF mods[manifests[k]].isfetched
                      /\ mods[manifests[k]].source \in VcsSources
                   THEN 1 ELSE 0
        /\ \A p \in Paths :
              (\A i \in Calls("remove") : log[i].path # p) =>
                  disk[p] = start.disk[p]

C7_Witness ==
    /\ cmd = "clean"
    /\ Calls("remove") # {}
    /\ \E k \in 1..Len(manifests) :
          /\ ~mods[manifests[k]].isfetched
          /\ disk[mods[manifests[k]].path] = "full"

\* C8: update calls the backend update once for each module of the pool that
\* is fetched and comes from git, and for no other module; it issues no
\* fetch and changes neither a module nor the pool.
C8_UpdateSweep ==
    [][ (ncmds' # ncmds /\ cmd' = "update") =>
          /\ \A i \in 1..Len(log') : log'[i].op = "update"
          /\ \A k \in 1..Len(manifests) :
                Cardinality({i \in 1..Len(log') : log'[i].mod = manifests[k]})
                   = IF mods[manifests[k]].isfetched
                        /\ mods[manifests[k]].source = "git"
                     THEN 1 ELSE 0
          /\ \A i \in 1..Len(log') :
                \E k \in 1..Len(manifests) : log'[i].mod = manifests[k]
          /\ mods' = mods
          /\ manifests' = manifests
      ]_vars

C8_Witness ==
    /\ cmd = "update"
    /\ Len(log) = 1
    /\ \E k \in 1..Len(manifests) :
          mods[manifests[k]].isfetched /\ mods[manifests[k]].source = "svn"
    /\ \E k \in 1..Len(manifests) :
          ~mods[manifests[k]].isfetched /\ mods[manifests[k]].source = "gitsm"

BuildCalls ==
    {i \in 1..Len(log) :
        log[i].op \in {"build_file_set", "solve_file_set", "write_makefile"}}

Unfetched == {m \in PoolPaths : \E i \in 1..Len(manifests) :
                 mods[manifests[i]].path = m /\ ~mods[manifests[i]].isfetched}

\* C9: makefile builds, solves and writes only when every module of the pool
\* is fetched; otherwise it fails, naming the unfetched modules, with none of
\* these steps done.
C9_FetchedBeforeBuild ==
    cmd = "makefile" =>
        /\ BuildCalls # {} => Unfetched = {}
        /\ Unfetched # {} =>
              /\ log = <<>>
              /\ error.kind = "unfetched"
              /\ {mods[error.mods[i]].path : i \in 1..Len(error.mods)}
                    = Unfetched

C9_Witness ==
    /\ cmd = "makefile"
    /\ error.kind = "unfetched"
    /\ Len(manifests) >= 3

\* C10: a non-local module is created with its path set and isfetched true
\* exactly when the path exists and is not empty; a local module whose path
\* exists is created fetched; a local module whose path does not exist is
\* not created, an error is raised instead.
C10_InitialFetchState ==
    /\ [] /\ \A i \in 1..Len(created) :
               LET e == created[i] IN
               /\ e.source # "local" =>
                     /\ e.ok
                     /\ e.path = e.url
                     /\ e.isfetched <=> (e.ondisk = "full")
               /\ (e.source = "local" /\ e.ondisk # "absent") =>
                     e.ok /\ e.isfetched
               /\ (e.source = "local" /\ e.ondisk = "absent") => ~e.ok
          /\ Len(mods) = Cardinality({i \in 1..Len(created) : created[i].ok})
          /\ \A m \in 1..Len(mods) :
                mods[m].source = "local" => disk[mods[m].path] # "absent"
    /\ [][ (created' # created /\ ~created'[Len(created')].ok) =>
              /\ error'.kind = "config_error"
              /\ error'.url = created'[Len(created')].url
              /\ pc' = "idle"
         ]_vars

C10_Witness ==
    /\ error.kind = "config_error"
    /\ \E i \in 1..Len(created) :
          created[i].ondisk = "empty" /\ created[i].ok /\ ~created[i].isfetched
    /\ \E i \in 1..Len(created) :
          created[i].ondisk = "full" /\ created[i].source # "local"
          /\ created[i].isfetched

\* C11: no backend fetch is issued for a local module, and the assertion of
\* the backend dispatch never fails: every module dispatched comes from svn,
\* git or gitsm.
C11_LocalNeverFetched ==
    /\ error.kind # "assertion_error"
    /\ \A i \in Calls("fetch") :
          /\ mods[log[i].mod].source # "local"
          /\ mods[log[i].mod].source \in VcsSources

C11_Witness ==
    /\ FetchDone
    /\ Cardinality(Calls("fetch")) >= 2
    /\ \E m \in 1..Len(mods) : mods[m].source = "local" /\ mods[m].parent # 0

\* C20: the fetch queue never holds two entries with the same resolved path.
C20_NoDuplicateQueueEntries ==
    pc = "fetch_all" =>
        \A i \in 1..Len(fetch_queue), j \in 1..Len(fetch_queue) :
            i # j => mods[fetch_queue[i]].path # mods[fetch_queue[j]].path

Hooks == Calls("fetch_pre_cmd") \cup Calls("fetch_post_cmd")

\* C16: in one fetch a module's pre hook and post hook each run at most
\* once, only for a fetched module whose manifest carries the directive, and
\* a hook that fails changes nothing: after the pre hooks the loop starts on
\* the whole pool, after the post hooks fetch returns without error.
C16_HooksFireAndForget ==
    /\ [] (cmd = "fetch" =>
             \A i \in Hooks :
                /\ \A j \in Hooks :
                      (log[j].mod = log[i].mod /\ log[j].op = log[i].op)
                          => j = i
                /\ log[i].op \in Directives[log[i].path]
                /\ mods[log[i].mod].isfetched
                /\ PoolIndex(log[i].mod) # 0)
    /\ [][ /\ Calls("fetch_pre_cmd")' # {} /\ pc = "idle" /\ pc' # "idle"
              => /\ pc' = "fetch_all"
                 /\ error' = NoError
                 /\ fetch_queue' = manifests
                 /\ \A i \in Calls("fetch_pre_cmd")' :
                       mods[log'[i].mod].isfetched
           /\ Calls("fetch_post_cmd")' \ Calls("fetch_post_cmd") # {}
              => /\ pc' = "idle"
                 /\ error' = NoError
                 /\ mods' = mods /\ manifests' = manifests /\ disk' = disk
         ]_vars

C16_Witness ==
    /\ FetchDone
    /\ \E i \in Calls("fetch_pre_cmd") : ~log[i].ok
    /\ \E i \in Calls("fetch_post_cmd") : ~log[i].ok
    /\ \E i \in Calls("fetch") : log[i].ok

\* ------------------------------------------------------------------------
\* Library of a module: ModuleCore._process_manifest_universal.

Libraries == {"ovr", "libm"}

\* manifest_dict, as far as the library is concerned: the key is there or not.
ManifestDicts == {<<>>} \cup {[library |-> l] : l \in Libraries}

\* ModuleConfig.__init__ and ModuleCore.__init__: library starts as "work",
\* library_overide comes from the URL ("none" stands for None).
new_module(parent, library_overide, manifest_dict) ==
    [parent |-> parent, library_overide |-> library_overide,
     manifest_dict |-> manifest_dict, library |-> "work", processed |-> FALSE]

_process_manifest_universal_keyfirst(t, m) ==
    IF "library" \in DOMAIN t[m].manifest_dict
    THEN t[m].manifest_dict["library"]
    ELSE IF t[m].library_overide # "none" THEN t[m].library_overide
    ELSE IF t[m].parent # 0 THEN t[t[m].parent].library
    ELSE t[m].library

\* core.py, lines 138-147: the library the module ends up with.
_process_manifest_universal(t, m) ==
    IF t[m].library_overide # "none" THEN t[m].library_overide
    ELSE IF "library" \in DOMAIN t[m].manifest_dict
    THEN t[m].manifest_dict["library"]
    ELSE IF t[m].parent # 0 THEN t[t[m].parent].library
    ELSE t[m].library

LibInit ==
    /\ CoreIdle /\ FileIdle /\ SolveIdle
    /\ \E md \in ManifestDicts : tree = <<new_module(0, "none", md)>>

\* A processed module declares a child; the child's manifest is read.
NewModule ==
    /\ Len(tree) < MaxModules
    /\ \E p \in 1..Len(tree), ovr \in {"none"} \cup Libraries,
          md \in ManifestDicts :
          /\ tree[p].processed
          /\ tree' = Append(tree, new_module(p, ovr, md))
    /\ UNCHANGED <<corevars, filevars, solvevars>>

ProcessManifest ==
    /\ \E m \in 1..Len(tree) :
          /\ ~tree[m].processed
          /\ tree' = [tree EXCEPT
                         ![m].library = _process_manifest_universal(tree, m),
                         ![m].processed = TRUE]
    /\ UNCHANGED <<corevars, filevars, solvevars>>

LibNext == NewModule \/ ProcessManifest

LibSpec == LibInit /\ [][LibNext]_vars

\* C12: a processed module's library is the URL's override if there is one,
\* else the manifest's library key if there is one, else its parent's
\* library, else "work"; so a child without an override and without the key
\* has exactly its parent's library.
C12_LibraryPrecedence ==
    \A m \in 1..Len(tree) :
        tree[m].processed =>
            /\ tree[m].library_overide # "none"
                  => tree[m].library = tree[m].library_overide
            /\ (tree[m].library_overide = "none"
                    /\ "library" \in DOMAIN tree[m].manifest_dict)
                  => tree[m].library = tree[m].manifest_dict["library"]
            /\ (tree[m].library_overide = "none"
                    /\ "library" \notin DOMAIN tree[m].manifest_dict)
                  => tree[m].library = IF tree[m].parent # 0
                                       THEN tree[tree[m].parent].library
                                       ELSE "work"

C12_Witness ==
    /\ Len(tree) = 3
    /\ \A m \in 1..3 : tree[m].processed
    /\ tree[2].parent = 1 /\ tree[3].parent = 2
    /\ tree[1].manifest_dict = <<>>
    /\ tree[2].library_overide = "ovr"
    /\ tree[2].manifest_dict = [library |-> "libm"]
    /\ tree[3].library_overide = "none" /\ tree[3].manifest_dict = <<>>
    /\ tree[1].library = "work" /\ tree[3].library = "ovr"

\* ------------------------------------------------------------------------
\* Source files: create_source_file and the classes it chooses from.
\* A string is the sequence of its tokens ("vhdl" is "vhd" followed by "l"),
\* so that splitting and concatenating strings are computed, not assumed.
\* The empty sequence stands for None and for "": both are false in Python.

FilePaths ==
    { <<"/", "m", "/", "a", ".", "vhd">>,
      <<"/", "m", "/", "a", ".", "vhd", "l">>,
      <<"/", "m", "/", "a", ".", "vho">>,
      <<"/", "m", "/", "b", ".", "v">>,
      <<"/", "m", "/", "c", ".", "sv">>,
      <<"/", "m", "/", "d", ".", "xci">>,
      <<"/", "m", "/", "core", ".", "ip">>,
      <<"/", "m", "/", "sys", ".", "qsys">>,
      <<"/", "m", "/", "e", ".", "ucf">>,
      <<"/", "m", "/", "f", ".", "xyz">>,
      <<"/", "m", "/", "a", ".", "VHD">>,
      <<"/", "m", "/", "Makefile">>,
      <<"/", "m", ".", "d", "/", "g">>,
      <<"a", ".", "vhd">>,
      <<>> }

\* The modules a file can belong to, with the library each one ended up with.
ModuleLibrary == [top |-> <<"work">>, sub |-> <<"modlib">>]

FileModules == DOMAIN ModuleLibrary

\* The library argument: absent, or an explicit override.
LibraryArgs == { <<>>, <<"mylib">>, <<"l", "work">> }

LastIndex(s, t) ==
    IF \E i \in 1..Len(s) : s[i] = t
    THEN CHOOSE i \in 1..Len(s) :
             s[i] = t /\ \A j \in (i + 1)..Len(s) : s[j] # t
    ELSE 0

\* create_source_file, lines 420-421: what follows the last dot, and the
\* whole path when it has no dot.
extension(path) == SubSeq(path, LastIndex(path, ".") + 1, Len(path))

\* os.path.abspath, lines 418-419.
abspath(path) ==
    IF path[1] = "/" THEN path ELSE <<"/", "cwd", "/">> \o path

\* path_mod.pathsplit(path)[-1]: the last component of the path.
filename(path) == SubSeq(path, LastIndex(path, "/") + 1, Len(path))

XILINX_FILE_DICT ==
    [xise |-> "XISEFile", ise |-> "XISEFile", ngc |-> "NGCFile",
     ucf |-> "UCFFile", cdc |-> "CDCFile", xmp |-> "XMPFile",
     ppr |-> "PPRFile", xpr |-> "XPRFile", bd |-> "BDFile",
     xco |-> "XCOFile", xdc |-> "XDCFile", xcf |-> "XCFFile",
     coe |-> "COEFile", mif |-> "MIFFile", ram |-> "RAMFile",
     vho |-> "VHOFile", veo |-> "VEOFile", bmm |-> "BMMFile",
     xci |-> "XCIFile"]

LATTICE_FILE_DICT ==
    [ldf |-> "LDFFile", lpf |-> "LPFFile", edf |-> "EDFFile",
     edif |-> "EDFFile", edi |-> "EDFFile", edn |-> "EDFFile",
     pcf |-> "PCFFile"]

MICROSEMI_FILE_DICT == [pdc |-> "PDCFile"]

ALTERA_FILE_DICT ==
    [stp |-> "SignalTapFile", qip |-> "QIPFile", ip |-> "IPFile",
     qsys |-> "QSYSFile", dpf |-> "DPFFile", qsf |-> "QSFFile",
     bsf |-> "BSFFile", bdf |-> "BDFFile", tdf |-> "TDFFile",
     gdf |-> "GDFFile"]

\* The classes derived from SourceFile: the files that can be parsed.
SourceFileClasses ==
    {"VHDLFile", "VerilogFile", "SVFile", "XCIFile", "IPFile", "QSYSFile"}

\* An extension as a key of the tables: the tables hold one-token keys.
key(ext) == IF Len(ext) = 1 THEN ext[1] ELSE ""

\* create_source_file, lines 425-457: the class chosen for an extension, in
\* the order of the branches, and `otherwise' where no branch is taken.
class_of(ext, otherwise) ==
    IF ext \in {<<"vhd">>, <<"vhd", "l">>, <<"vho">>} THEN "VHDLFile"
    ELSE IF key(ext) \in {"v", "vh", "vo", "vm"} THEN "VerilogFile"
    ELSE IF key(ext) \in {"sv", "svh"} THEN "SVFile"
    ELSE IF key(ext) = "wb" THEN "WBGenFile"
    ELSE IF key(ext) = "tcl" THEN "TCLFile"
    ELSE IF key(ext) = "sdc" THEN "SDCFile"
    ELSE IF key(ext) \in DOMAIN XILINX_FILE_DICT
    THEN XILINX_FILE_DICT[key(ext)]
    ELSE IF key(ext) \in DOMAIN ALTERA_FILE_DICT
    THEN ALTERA_FILE_DICT[key(ext)]
    ELSE IF key(ext) \in DOMAIN LATTICE_FILE_DICT
    THEN LATTICE_FILE_DICT[key(ext)]
    ELSE IF key(ext) \in DOMAIN MICROSEMI_FILE_DICT
    THEN MICROSEMI_FILE_DICT[key(ext)]
    ELSE otherwise

file_class_fallback(ext) == class_of(ext, "File")

\* create_source_file, lines 455-457: the final else raises; "none" says so.
file_class(ext) == class_of(ext, "none")

\* The extensions for which create_source_file has a branch.
KnownExtensions ==
    {<<"vhd">>, <<"vhd", "l">>}
    \cup {<<k>> : k \in {"vho", "v", "vh", "vo", "vm", "sv", "svh",
                          "wb", "tcl", "sdc"}}
    \cup {<<k>> : k \in DOMAIN XILINX_FILE_DICT \cup DOMAIN ALTERA_FILE_DICT
                         \cup DOMAIN LATTICE_FILE_DICT
                         \cup DOMAIN MICROSEMI_FILE_DICT}

\* SourceFile.__init__, lines 47-53: the library of the new file.
SourceFile__init__(library) == IF library = <<>> THEN <<"work">> ELSE library

\* The library argument each branch of create_source_file passes on, and what
\* the class's constructor makes of it.  A File has no library.
file_library(class, path, library) ==
    IF class \in {"VHDLFile", "VerilogFile", "SVFile"}
    THEN SourceFile__init__(library)
    ELSE IF class = "XCIFile" THEN SourceFile__init__(<<>>)
    ELSE IF class \in {"IPFile", "QSYSFile"}
    THEN SourceFile__init__(SubSeq(filename(path), 1,
                                   Len(filename(path)) - 2))
    ELSE <<>>

create_source_file(path, module, library, is_include) ==
    LET abs == abspath(path)
        class == file_class(extension(abs))
        args == [path |-> path, module |-> module, library |-> library,
                 is_include |-> is_include]
    IN  IF path = <<>>
        THEN args @@ [error |-> "RuntimeError", new_file |-> NoFile]
        ELSE IF class = "none"
        THEN args @@ [error |-> "Exception", new_file |-> NoFile]
        ELSE args @@
             [error |-> "none",
              new_file |->
                  [class |-> class, path |-> abs, module |-> module,
                   library |-> file_library(class, abs, library),
                   is_include |-> IF class \in {"VerilogFile", "SVFile"}
                                  THEN is_include ELSE FALSE]]

CreateInit ==
    /\ CoreIdle /\ LibIdle /\ SolveIdle
    /\ FileIdle

CreateSourceFile ==
    /\ \E path \in FilePaths, module \in FileModules,
          library \in LibraryArgs, is_include \in BOOLEAN :
          call' = create_source_file(path, module, library, is_include)
    /\ UNCHANGED <<corevars, libvars, solvevars,
                   files, fileset, added, raised,
                   parseable_fileset, privative_fileset, written>>

CreateNext == CreateSourceFile

CreateSpec == CreateInit /\ [][CreateNext]_vars

\* C13: a parseable file created without a library override has the library
\* of its module, and one created with an explicit override has that library.
C13_FileLibraryInheritance ==
    (call.error = "none" /\ call.new_file.class \in SourceFileClasses) =>
        call.new_file.library = IF call.library = <<>>
                                THEN ModuleLibrary[call.module]
                                ELSE call.library

\* C14: the class of the file depends on the extension of the path alone
\* (two calls with the same extension end the same way, whatever the module,
\* the library and is_include), an extension with a branch gives a file, and
\* any other extension raises and gives no file.
C14_KindByExtension ==
    /\ [] (call.path # <<>> =>
              LET ext == extension(abspath(call.path))
              IN  /\ ext \in KnownExtensions
                        => call.error = "none" /\ call.new_file # NoFile
                  /\ ext \notin KnownExtensions
                        => call.error = "Exception" /\ call.new_file = NoFile)
    /\ [][ (/\ call.path # <<>> /\ call'.path # <<>>
            /\ extension(abspath(call.path)) = extension(abspath(call'.path)))
              => /\ call'.new_file.class = call.new_file.class
                 /\ call'.error = call.error ]_vars

C14_Witness ==
    /\ extension(call.path) = <<"xyz">>
    /\ call.module = "sub" /\ call.library = <<"mylib">>
    /\ call.error = "Exception"
    /\ call.new_file = NoFile

\* ------------------------------------------------------------------------
\* SourceFileSet: a Python set of file objects.

\* What the files of a fileset are created from: two paths and two libraries
\* chosen so that path + library can coincide for different files.
SetPaths ==
    { <<"/", "m", "/", "a", ".", "vhd">>,
      <<"/", "m", "/", "a", ".", "vhd", "l">> }

SetLibraries == { <<>>, <<"l", "work">> }

__hash__id(f) == <<f>> \o files[f].path \o files[f].library

\* SourceFile.__hash__, lines 55-56: the hash of the concatenated strings
\* (the string itself stands for its hash).
__hash__(f) == files[f].path \o files[f].library

\* File.__eq__: two files are equal when they are the same (path, library).
__eq__(f, g) ==
    files[f].path = files[g].path /\ files[f].library = files[g].library

\* set.add of Python: an object is not added when the set holds it, or
\* holds an object with the same hash that is equal to it.
set_add(s, f) ==
    IF \E g \in s : g = f \/ (__hash__(g) = __hash__(f) /\ __eq__(g, f))
    THEN s
    ELSE s \cup {f}

RECURSIVE add_each(_, _)
\* SourceFileSet.add, lines 393-394: the loop over the files given.
add_each(s, list) ==
    IF list = <<>> THEN s
    ELSE add_each(set_add(s, Head(list)), Tail(list))

\* The arguments of SourceFileSet.add: None, a string, one file, a list.
AddArgs ==
    {[kind |-> "None", files |-> <<>>], [kind |-> "str", files |-> <<>>]}
    \cup {[kind |-> "file", files |-> <<f>>] : f \in 1..Len(files)}
    \cup {[kind |-> "list", files |-> l] :
              l \in UNION {[1..n -> 1..Len(files)] : n \in 0..2}}

FileSetInit ==
    /\ CoreIdle /\ LibIdle /\ SolveIdle
    /\ FileIdle

\* A file object comes to exist: create_source_file returns it.
NewFile ==
    /\ Len(files) < MaxFiles
    /\ \E path \in SetPaths, library \in SetLibraries :
          LET c == create_source_file(path, "top", library, FALSE)
          IN  /\ c.error = "none"
              /\ call' = c
              /\ files' = Append(files, c.new_file)
    /\ UNCHANGED <<corevars, libvars, solvevars, fileset, added, raised,
                   parseable_fileset, privative_fileset, written>>

\* SourceFileSet.add, lines 385-396.
Add ==
    /\ \E arg \in AddArgs :
          /\ added' = arg
          /\ IF arg.kind = "str"
             THEN raised' = "RuntimeError" /\ fileset' = fileset
             ELSE /\ raised' = "none"
                  /\ fileset' = add_each(fileset, arg.files)
    /\ UNCHANGED <<corevars, libvars, solvevars, call, files,
                   parseable_fileset, privative_fileset, written>>

FileSetNext == NewFile \/ Add

FileSetSpec == FileSetInit /\ [][FileSetNext]_vars

Identity(f) == <<files[f].path, files[f].library>>

\* C15: a fileset never holds two files with the same (path, library), and
\* an add whose files all have a (path, library) that the set already holds
\* leaves the set as it was.
C15_SetSemantics ==
    /\ [] (\A f \in fileset, g \in fileset :
              Identity(f) = Identity(g) => f = g)
    /\ [][ (\A i \in 1..Len(added'.files) :
               \E g \in fileset : Identity(g) = Identity(added'.files[i]))
             => fileset' = fileset ]_vars

C15_Witness ==
    /\ added.kind = "list" /\ Len(added.files) = 2
    /\ \E f \in fileset :
          /\ added.files[1] \notin fileset
          /\ Identity(added.files[1]) = Identity(f)
    /\ \E f \in fileset, g \in fileset :
          f # g /\ __hash__(f) = __hash__(g)

\* ------------------------------------------------------------------------
\* The dependency solver and list_files.

\* A design unit a relation is about: identity library.name and kind.
xE == [identity |-> "work.x", kind |-> "ENTITY"]

xA == [identity |-> "work.x", kind |-> "ARCHITECTURE"]

yE == [identity |-> "work.y", kind |-> "ENTITY"]

zP == [identity |-> "ieee.z", kind |-> "PACKAGE"]

\* The relations of one parsed file: what it provides and what it uses.
FileFacts ==
    {ff \in [provides : {{}, {xE}, {yE}, {xA}},
             uses : {{}, {xE}, {yE}, {zP}}] :
        ff.provides \cap ff.uses = {}}

\* The filesets of up to MaxSolved files, in their input order; a file is
\* known by its position.
FileSets == UNION {[1..n -> FileFacts] : n \in 0..MaxSolved}

Min(S) == CHOOSE x \in S : \A y \in S : x <= y

Range(f) == {f[i] : i \in DOMAIN f}

providers(fs, u) == {j \in 1..Len(fs) : u \in fs[j].provides}

ambiguous_never(fs) == FALSE

\* Two files provide the identical (identity, kind).
ambiguous(fs) ==
    \E i \in 1..Len(fs), j \in 1..Len(fs) :
        i # j /\ fs[i].provides \cap fs[j].provides # {}

\* The edges: the files that provide a unit file i uses.
depends_on(fs, i) ==
    {j \in 1..Len(fs) : fs[i].uses \cap fs[j].provides # {}}

\* The uses that no file of the fileset provides.
unresolved(fs) ==
    {x \in (1..Len(fs)) \X {xE, xA, yE, zP} :
        x[2] \in fs[x[1]].uses /\ providers(fs, x[2]) = {}}

RECURSIVE toposort(_, _)
\* Topological sort: of the files whose providers are all placed, the first
\* in input order is placed next; it stops when no file is ready.
toposort(fs, placed) ==
    LET ready == {i \in (1..Len(fs)) \ Range(placed) :
                     depends_on(fs, i) \subseteq Range(placed)}
    IN  IF ready = {} THEN placed
        ELSE toposort(fs, Append(placed, Min(ready)))

RECURSIVE reach(_, _, _)
reach(fs, S, k) ==
    IF k = 0 THEN S
    ELSE reach(fs, S \cup UNION {depends_on(fs, i) : i \in S}, k - 1)

\* The files that take part in a cycle: those that depend on themselves
\* through the edges.
on_cycle(fs) ==
    {i \in 1..Len(fs) : i \in reach(fs, depends_on(fs, i), Len(fs))}

\* dep_solver.solve and make_dependency_sorted_list.
solve(fs) ==
    IF ambiguous(fs)
    THEN [status |-> "AmbiguousProvisionError", order |-> <<>>,
          unresolved |-> {},
          named |-> {i \in 1..Len(fs) :
                        \E j \in 1..Len(fs) :
                            i # j /\ fs[i].provides \cap fs[j].provides # {}}]
    ELSE IF Len(toposort(fs, <<>>)) < Len(fs)
    THEN [status |-> "CyclicDependencyError", order |-> <<>>,
          unresolved |-> unresolved(fs), named |-> on_cycle(fs)]
    ELSE [status |-> "ok", order |-> toposort(fs, <<>>),
          unresolved |-> unresolved(fs), named |-> {}]

file_list_reversed(solution) == Reverse(solution.order)

\* list_files, lines 158-159: the list the solver returned.
file_list(solution) == solution.order

list_files_despite(solution, reverse, qip) ==
    [done |-> TRUE, file_list |-> file_list(solution), qip |-> qip,
     printed |-> IF qip THEN <<>>
                 ELSE IF reverse THEN Reverse(file_list(solution))
                 ELSE file_list(solution)]

\* list_files, lines 156-170: an exception of the solver is not caught, so
\* nothing is listed; else the list goes to the qip file, or its paths are
\* printed, in reverse when options.reverse is set.
list_files(solution, reverse, qip) ==
    IF solution.status # "ok" THEN NoListing
    ELSE [done |-> TRUE, file_list |-> file_list(solution), qip |-> qip,
          printed |-> IF qip THEN <<>>
                      ELSE IF reverse THEN Reverse(file_list(solution))
                      ELSE file_list(solution)]

SolveInit ==
    /\ CoreIdle /\ LibIdle /\ FileIdle
    /\ sfiles \in FileSets
    /\ solved = NoSolution
    /\ listed = NoListing

ListFiles ==
    /\ solved = NoSolution
    /\ \E reverse \in BOOLEAN, qip \in BOOLEAN :
          /\ solved' = solve(sfiles)
          /\ listed' = list_files(solved', reverse, qip)
    /\ UNCHANGED <<corevars, libvars, filevars, sfiles>>

SolveNext == ListFiles

SolveSpec == SolveInit /\ [][SolveNext]_vars

\* Properties of the input, stated without the solver's own operators.
Position(order, f) == CHOOSE k \in 1..Len(order) : order[k] = f

Uses(f1, f2) == \E u \in sfiles[f1].uses : u \in sfiles[f2].provides

\* f lies on a cycle of Uses: a closed walk from f back to f.
InCycle(f) ==
    \E n \in 1..Len(sfiles) :
        \E w \in [1..n -> 1..Len(sfiles)] :
            /\ w[1] = f
            /\ \A k \in 1..(n - 1) : Uses(w[k], w[k + 1])
            /\ Uses(w[n], f)

Cyclic == \E f \in 1..Len(sfiles) : InCycle(f)

Ambiguous ==
    \E u \in {xE, xA, yE, zP} :
        Cardinality({f \in 1..Len(sfiles) : u \in sfiles[f].provides}) >= 2

Dangling ==
    {x \in (1..Len(sfiles)) \X {xE, xA, yE, zP} :
        /\ x[2] \in sfiles[x[1]].uses
        /\ \A f \in 1..Len(sfiles) : x[2] \notin sfiles[f].provides}

\* C17: in the list the solver produced and list_files consumed, every file
\* of the fileset appears exactly once, and a file that provides a unit comes
\* before every file that uses that unit.
C17_TopologicalValidity ==
    listed.done =>
        /\ listed.file_list = solved.order
        /\ Len(listed.file_list) = Len(sfiles)
        /\ \A f \in 1..Len(sfiles) :
              Cardinality({k \in 1..Len(listed.file_list) :
                              listed.file_list[k] = f}) = 1
        /\ \A f1 \in 1..Len(sfiles), f2 \in 1..Len(sfiles) :
              Uses(f1, f2) =>
                  Position(listed.file_list, f2) < Position(listed.file_list, f1)

C17_Witness ==
    /\ listed.done
    /\ Len(sfiles) = 3
    /\ Uses(1, 2) /\ Uses(2, 3)
    /\ listed.file_list = <<3, 2, 1>>

C19_AmbiguityVersusUnresolved ==
    solved # NoSolution =>
        /\ Ambiguous =>
              /\ solved.status = "AmbiguousProvisionError"
              /\ solved.order = <<>>
              /\ ~listed.done
        /\ ~Ambiguous => solved.status # "AmbiguousProvisionError"
        /\ (~Ambiguous /\ ~Cyclic) =>
              /\ solved.status = "ok"
              /\ solved.unresolved = Dangling
              /\ Len(solved.order) = Len(sfiles)
              /\ listed.done

C19_Witness ==
    /\ Len(sfiles) = 3
    /\ Dangling # {}
    /\ \E f \in 1..3 : \E g \in 1..3 : Uses(f, g)
    /\ solved.status = "ok"
    /\ solved.unresolved = Dangling
    /\ Len(solved.order) = 3
    /\ listed.done

\* ------------------------------------------------------------------------
\* The order of the pool and of the hooks during fetch.

IsPrefix(s, t) == Len(s) <= Len(t) /\ SubSeq(t, 1, Len(s)) = s

\* C21: during fetch resolution the pool only grows by appending: the pool
\* before a step is a prefix of the pool after it, the pool the run started
\* with is a prefix of the pool at every later step, and every module on the
\* queue is registered in the pool (under its resolved path) by the time it
\* is on the queue.
C21_DiscoveryOrderStable ==
    /\ [] (cmd = "fetch" =>
              /\ IsPrefix(start.manifests, manifests)
              /\ pc = "fetch_all" =>
                    \A i \in 1..Len(fetch_queue) :
                        mods[fetch_queue[i]].path \in PoolPaths)
    /\ [][IsPrefix(manifests, manifests')]_vars

C21_Witness ==
    /\ cmd = "fetch" /\ pc = "fetch_all"
    /\ Len(start.manifests) >= 2
    /\ Len(manifests) >= Len(start.manifests) + 1
    /\ \E i \in 1..Len(fetch_queue) :
          PoolIndex(fetch_queue[i]) > Len(start.manifests)

MergePaths ==
    { <<"/", "m", "/", "top", ".", "vhd">>,
      <<"/", "m", "/", "a", ".", "v">>,
      <<"/", "m", "/", "b", ".", "xci">>,
      <<"/", "m", "/", "top", ".", "ucf">>,
      <<"/", "m", "/", "a", ".", "tcl">>,
      <<"/", "m", "/", "d", ".", "sdc">> }

MergeFiles ==
    {create_source_file(path, "top", <<>>, FALSE).new_file : path \in MergePaths}

RECURSIVE in_order(_)
\* The elements of a set of file objects, oldest object first.
in_order(S) ==
    IF S = {} THEN <<>>
    ELSE <<Min(S)>> \o in_order(S \ {Min(S)})

\* build_file_set: the files of the pool, the parseable ones in one fileset
\* and the others in the other.
build_file_set(fl) ==
    [parseable_fileset |->
         add_each({}, in_order({i \in 1..Len(fl) :
                                   fl[i].class \in SourceFileClasses})),
     privative_fileset |->
         add_each({}, in_order({i \in 1..Len(fl) :
                                   fl[i].class \notin SourceFileClasses}))]

\* makefile, lines 67-68: combined_fileset is another name of the object
\* self.parseable_fileset, and add changes that object.
merge(parseable, privative) ==
    LET combined == add_each(parseable, in_order(privative))
    IN  [parseable_fileset |-> combined, combined_fileset |-> combined]

MergeInit ==
    /\ CoreIdle /\ LibIdle /\ SolveIdle
    /\ call = NoCall
    /\ files \in UNION {[1..n -> MergeFiles] : n \in 0..MaxFiles}
    /\ fileset = {}
    /\ added = [kind |-> "None", files |-> <<>>]
    /\ raised = "none"
    /\ MakeIdle

\* makefile() (lines 62-75), as far as the filesets go: unfetched tells
\* whether _check_all_fetched raises, tool whether self.tool is set.
MakefileWrite ==
    /\ \E unfetched \in BOOLEAN, tool \in BOOLEAN :
          IF unfetched
          THEN /\ raised' = "Exception"
               /\ written' = NoWrite
               /\ UNCHANGED <<parseable_fileset, privative_fileset>>
          ELSE LET built == build_file_set(files)
                   m == merge(built.parseable_fileset, built.privative_fileset)
               IN  /\ parseable_fileset' = m.parseable_fileset
                   /\ privative_fileset' = built.privative_fileset
                   /\ raised' = IF tool THEN "none" ELSE "SystemExit"
                   /\ written' =
                          IF tool
                          THEN [done |-> TRUE, fileset |-> m.combined_fileset,
                                calls |-> <<"build_file_set", "solve_file_set",
                                            "add", "write_makefile">>]
                          ELSE [done |-> FALSE, fileset |-> {},
                                calls |-> <<"build_file_set", "solve_file_set",
                                            "add", "quit">>]
    /\ UNCHANGED <<corevars, libvars, solvevars, call, files, fileset, added>>

MergeNext == MakefileWrite

MergeSpec == MergeInit /\ [][MergeNext]_vars

\* C23: what makefile hands to the tool is exactly the parseable files
\* together with the privative files, the files are merged after the one
\* call of the solver, and afterwards the parseable fileset still holds
\* parseable files only.
C23_OpaqueMerge ==
    written.done =>
        /\ written.fileset = build_file_set(files).parseable_fileset
                                 \cup build_file_set(files).privative_fileset
        /\ written.calls = <<"build_file_set", "solve_file_set", "add",
                             "write_makefile">>
        /\ \A f \in parseable_fileset : files[f].class \in SourceFileClasses

\* C24: the resolved path of a non-local module does not depend on its
\* branch or revision, so two references to one URL that differ in branch
\* or revision have the same path; and the backend is asked to fetch at most
\* one of them: once one is fetched the other counts as fetched.
C24_PathIgnoresBranch ==
    \A i \in 1..Len(mods), j \in 1..Len(mods) :
        (/\ i # j
         /\ mods[i].source # "local" /\ mods[j].source # "local"
         /\ mods[i].url = mods[j].url
         /\ <<mods[i].branch, mods[i].revision>>
               # <<mods[j].branch, mods[j].revision>>)
            => /\ mods[i].path = mods[j].path
               /\ \/ \A k \in Calls("fetch") : log[k].mod # i
                  \/ \A k \in Calls("fetch") : log[k].mod # j

====
